---------------------------- MODULE Spec2Model ----------------------------
(***************************************************************************)
(* The Transparency Loop (src/index.tsx): a React component whose          *)
(* animation-frame callback advances a simulated point, samples it into a  *)
(* bounded history at the species' flicker rate, smooths a transparency    *)
(* index, redraws three canvases, and on demand sends one generateContent  *)
(* request.                                                                *)
(*                                                                         *)
(* Numbers.  JavaScript doubles are modelled in fixed point with floor     *)
(* rounding: positions in whole pixels, distances in 1/100 pixel, the      *)
(* transparency index in 1/100 percent (TScale), the attention bias in     *)
(* 1/100, times in whole milliseconds.                                     *)
(*                                                                         *)
(* React.  A state setter called from an animation frame or from a promise *)
(* continuation queues an update: `pending` holds the value the queue      *)
(* yields, and the variables history, transparency, analysis, isAnalyzing  *)
(* hold what the last render committed (what every closure of that render  *)
(* reads).  Commit is the render of the queued updates together with its   *)
(* effects.  A setter called from a click or slider handler is rendered    *)
(* synchronously, inside the handler's action.  In Spec, SpecInsight and   *)
(* SpecLong React renders the updates of one frame before the next frame   *)
(* runs; SpecRaf drops that: a frame may run before the render of the last *)
(* frame's updates, and between a render (Render) and its effect           *)
(* (RunEffect).                                                            *)
(***************************************************************************)
EXTENDS Integers, Sequences, FiniteSets, TLC

\* ------------------------------------------------------------ constants
MAX_HISTORY == 50

CANVAS_SIZE == [width |-> 600, height |-> 400]

\* 100 percent, in the unit of the transparency index (1/100 percent)
TScale == 10000

\* the pixel, in the unit of distances (1/100 pixel)
DScale == 100

SPECIES_PRESETS ==
  ("Dragonfly" :> [name |-> "Dragonfly", flickerRate |-> 200, integrationWindow |-> 5,
                   attentionFocus |-> 10, spectralSensitivity |-> "#00ffcc"]) @@
  ("Bird" :> [name |-> "Bird", flickerRate |-> 80, integrationWindow |-> 15,
              attentionFocus |-> 40, spectralSensitivity |-> "#ff00ff"]) @@
  ("Human" :> [name |-> "Human", flickerRate |-> 24, integrationWindow |-> 30,
               attentionFocus |-> 70, spectralSensitivity |-> "#ffffff"]) @@
  ("Species-AI" :> [name |-> "Species-AI", flickerRate |-> 8, integrationWindow |-> 50,
                    attentionFocus |-> 95, spectralSensitivity |-> "#ffff00"])

PRESET_KEYS == <<"Dragonfly", "Bird", "Human", "Species-AI">>

\* the strings performDeepAnalysis can put on display
NoAnalysis == "null"
Placeholder == "Insight unavailable at this resolution."
Fallback == "Perceptual static detected. Intelligence link severed."

\* ---------------------------------------------------------------- bounds
\* animation frames of a run of Spec
MaxFrames == 5
\* animation frames of a run of SpecInsight
MaxInsightFrames == 4
\* preset selections and slider edits, per run of SpecInsight
MaxInsightEdits == 1
\* times the random source of updateWorld picks a new target, per run
MaxRetargets == 1
\* preset selections and slider edits, per run
MaxEdits == 1
\* samples accepted in a run of SpecLong
MaxLongSamples == 52
\* preset selections and slider edits, per run of SpecLong
MaxLongEdits == 1

\* time from page load to the first frame and, in Spec, between two frames, ms:
\* a fast frame and a stalled one
FrameDeltas == {25, 1001}
\* time between two frames of SpecInsight and SpecLong, ms
SteadyDelta == 130
\* targets the random source may pick (any point of the 300 x 200 world)
TargetPoints == {[x |-> 260, y |-> 100], [x |-> 0, y |-> 0]}
\* values the flicker-rate slider (1..240) is moved to
RateChoices == {1, 40}
\* values the integration-window slider (1..50) is moved to
WindowChoices == {1, 50}
\* values the attention-bias slider (0.00..1.00) is moved to, in 1/100
BiasChoices == {0, 100}
\* clicks on the insight button, per run
MaxClicks == 2
\* animation frames of a run of SpecRaf
MaxRafFrames == 3
\* preset selections and rate edits, per run of SpecRaf
MaxRafEdits == 1

\* ------------------------------------------------------------ utilities
Max(a, b) == IF a > b THEN a ELSE b
Min(a, b) == IF a < b THEN a ELSE b

\* lerp(a, b, t) with t = num / den
lerp(a, b, num, den) == a + ((b - a) * num) \div den

RECURSIVE ISqrtIn(_, _, _)
ISqrtIn(n, lo, hi) ==
  IF lo >= hi THEN lo
  ELSE LET mid == (lo + hi + 1) \div 2
       IN IF mid * mid <= n THEN ISqrtIn(n, mid, hi) ELSE ISqrtIn(n, lo, mid - 1)

\* floor of the square root of n, n < 2^31
ISqrt(n) == ISqrtIn(n, 0, 46340)

\* Math.sqrt(Math.pow(last.x - prev.x, 2) + Math.pow(last.y - prev.y, 2)), in 1/100 px
Distance(last, prev) ==
  ISqrt(((last.x - prev.x) * (last.x - prev.x) + (last.y - prev.y) * (last.y - prev.y))
        * DScale * DScale)

VARIABLES
  species,        \* useState: the species profile
  history,        \* useState: the committed history of samples
  transparency,   \* useState: the committed transparency index
  analysis,       \* useState: the committed analysis text
  isAnalyzing,    \* useState: the committed pending flag
  pending,        \* the values the queued state updates yield at the next render
  lastUpdateTime, \* useRef: time of the last accepted sample
  worldState,     \* useRef: the simulated point and its target
  requestRef,     \* useRef: handle of the last requested animation frame
  rafQueue,       \* the browser's scheduled animation-frame callbacks, each with
                  \* the species and history its closure captured
  nextHandle,     \* the next handle requestAnimationFrame returns
  canvas,         \* what the last drawCanvases put on the three canvases
  requests,       \* the generateContent calls issued, in order
  now,            \* time of the last animation frame
  accepted,       \* history variable: every sample accepted so far
  sampledAt,      \* history variable: the rate in force at the last acceptance
  frames,         \* history variable: frames run
  retargets,      \* history variable: targets picked
  edits,          \* history variable: preset selections and slider edits
  clicks,         \* history variable: clicks on the insight button
  selectedAt,     \* history variable: the number of requests issued before the
                  \* last preset selection
  budget          \* the bounds of the run, fixed by the specification

vars == <<species, history, transparency, analysis, isAnalyzing, pending,
          lastUpdateTime, worldState, requestRef, rafQueue, nextHandle, canvas,
          requests, now, accepted, sampledAt, frames, retargets, edits, clicks,
          selectedAt>>

rafVars == <<requestRef, rafQueue, nextHandle>>
ghostVars == <<accepted, sampledAt, frames, retargets, edits, clicks, selectedAt>>
allVars == <<vars, budget>>

Init ==
  /\ species = SPECIES_PRESETS["Human"]
  /\ history = <<>>
  /\ transparency = 0
  /\ analysis = NoAnalysis
  /\ isAnalyzing = FALSE
  /\ pending = [history |-> <<>>, transparency |-> 0,
                analysis |-> NoAnalysis, isAnalyzing |-> FALSE]
  /\ lastUpdateTime = 0
  /\ worldState = [x |-> 150, y |-> 100, targetX |-> 150, targetY |-> 100]
  \* the effect of the first render has requested the first frame
  /\ requestRef = 1
  /\ rafQueue = {[id |-> 1, species |-> SPECIES_PRESETS["Human"], history |-> <<>>]}
  /\ nextHandle = 2
  /\ canvas = [world |-> <<>>, model |-> <<>>, matrix |-> {}]
  /\ requests = <<>>
  /\ now = 0
  /\ accepted = <<>>
  /\ sampledAt = 0
  /\ frames = 0
  /\ retargets = 0
  /\ edits = 0
  /\ clicks = 0
  /\ selectedAt = 0

\* nothing is queued: the last render has seen every state update
Rendered ==
  pending = [history |-> history, transparency |-> transparency,
             analysis |-> analysis, isAnalyzing |-> isAnalyzing]

\* --------------------------------------------------------- frame loop
\* mutant: delta >= interval
ShouldSampleAtInterval(delta, rate) == delta * rate >= 1000

\* delta > interval, with interval = 1000 / species.flickerRate
ShouldSample(delta, rate) == delta * rate > 1000

\* the outcomes of updateWorld's random source: no new target, or one of `targets`
\* with 0 <= x < width / 2 and 0 <= y < height / 2
Rolls(targets) ==
  {[hit |-> FALSE, x |-> 0, y |-> 0]} \cup
  {[hit |-> TRUE, x |-> p.x, y |-> p.y] :
     p \in {q \in targets : /\ q.x >= 0 /\ q.x < CANVAS_SIZE.width \div 2
                            /\ q.y >= 0 /\ q.y < CANVAS_SIZE.height \div 2}}

updateWorld(ws, roll) ==
  LET targetX == IF roll.hit THEN roll.x ELSE ws.targetX
      targetY == IF roll.hit THEN roll.y ELSE ws.targetY
  IN [x |-> lerp(ws.x, targetX, 5, 100), y |-> lerp(ws.y, targetY, 5, 100),
      targetX |-> targetX, targetY |-> targetY]

\* array.slice(-n), n >= 1
SliceLast(s, n) == SubSeq(s, Max(Len(s) - n, 0) + 1, Len(s))

\* mutant: [...prev, newPoint].slice(0, MAX_HISTORY)
PushSampleKeepOldest(prev, newPoint) ==
  SubSeq(Append(prev, newPoint), 1, Min(Len(prev) + 1, MAX_HISTORY))

\* the updater of setHistory: [...prev, newPoint].slice(-MAX_HISTORY)
PushSample(prev, newPoint) == SliceLast(Append(prev, newPoint), MAX_HISTORY)

\* mutant: Math.min(100, 100 - dist / (flickerRate / 5)), the floor of 0 left out
InstantTransparencyNoFloor(dist, rate) ==
  Min(TScale, TScale - (dist * 5 * TScale) \div (rate * 100 * DScale))

\* Math.max(0, Math.min(100, 100 - dist / (flickerRate / 5)))
InstantTransparency(dist, rate) ==
  Max(0, Min(TScale, TScale - (dist * 5 * TScale) \div (rate * 100 * DScale)))

\* mutant: history.length > 0, the sample before the last one taken to be the last
\* when there is none
TransparencyUpdateFromOne(prevT, h, rate) ==
  IF Len(h) > 0
  THEN LET last == h[Len(h)]
           prev == h[Max(1, Len(h) - 1)]
       IN lerp(prevT, InstantTransparencyNoFloor(Distance(last, prev), rate), 1, 10)
  ELSE prevT

\* lines 184-190: the index after a sample is accepted by a frame whose closure
\* holds history h
TransparencyUpdate(prevT, h, rate) ==
  IF Len(h) > 1
  THEN LET last == h[Len(h)]
           prev == h[Len(h) - 1]
       IN lerp(prevT, InstantTransparency(Distance(last, prev), rate), 1, 10)
  ELSE prevT

\* mutant: history.slice(0, species.integrationWindow)
WindowPointsOldest(h, window) == SubSeq(h, 1, Min(window, Len(h)))

\* history.slice(-species.integrationWindow)
WindowPoints(h, window) == SliceLast(h, window)

\* mutant: the test col <= row left out
MatrixCellsUnmasked(n) ==
  LET count == Max(1, n)
  IN (0 .. count - 1) \X (0 .. count - 1)

\* the cells of the attention matrix that the two loops fill
MatrixCells(n) ==
  LET count == Max(1, n)
  IN {c \in (0 .. count - 1) \X (0 .. count - 1) : c[2] <= c[1]}

drawCanvases(sp, h, ws) ==
  [world |-> <<ws.x, ws.y>>,
   model |-> WindowPoints(h, sp.integrationWindow),
   matrix |-> MatrixCells(Len(h))]

\* requestRef.current = requestAnimationFrame(cb)
RequestFrame(queue, sp, h) ==
  /\ rafQueue' = queue \cup {[id |-> nextHandle, species |-> sp, history |-> h]}
  /\ requestRef' = nextHandle
  /\ nextHandle' = nextHandle + 1

\* mutant: the effect has no cleanup, the frame requestRef names stays scheduled
useEffectNoCleanup(sp, h) == RequestFrame(rafQueue, sp, h)

\* the effect on [species, history]: its cleanup cancels the frame requestRef
\* names, then the new render's animate is requested
useEffect(sp, h) ==
  RequestFrame({cb \in rafQueue : cb.id # requestRef}, sp, h)

\* one animation frame: the browser runs the scheduled callback cb at `time`
animate(cb, time, roll) ==
  LET delta == time - lastUpdateTime
      sp == cb.species
      ws == updateWorld(worldState, roll)
      take == ShouldSample(delta, sp.flickerRate)
      newPoint == [x |-> ws.x, y |-> ws.y, t |-> time]
  IN /\ worldState' = ws
     /\ lastUpdateTime' = IF take THEN time ELSE lastUpdateTime
     /\ pending' = IF take
                   THEN [pending EXCEPT
                           !.history = PushSample(@, newPoint),
                           !.transparency = TransparencyUpdate(@, cb.history, sp.flickerRate)]
                   ELSE pending
     /\ canvas' = drawCanvases(sp, cb.history, ws)
     /\ RequestFrame(rafQueue \ {cb}, sp, cb.history)
     /\ now' = time
     /\ accepted' = IF take THEN Append(accepted, newPoint) ELSE accepted
     /\ sampledAt' = IF take THEN sp.flickerRate ELSE sampledAt
     /\ frames' = frames + 1
     /\ retargets' = IF roll.hit THEN retargets + 1 ELSE retargets
     /\ UNCHANGED <<species, history, transparency, analysis, isAnalyzing, requests,
                    edits, clicks, selectedAt>>

\* React renders the queued updates and runs the effect when a dependency changed
Commit ==
  /\ ~Rendered
  /\ history' = pending.history
  /\ transparency' = pending.transparency
  /\ analysis' = pending.analysis
  /\ isAnalyzing' = pending.isAnalyzing
  /\ IF pending.history # history
     THEN useEffect(species, pending.history)
     ELSE UNCHANGED rafVars
  /\ UNCHANGED <<species, pending, lastUpdateTime, worldState, canvas, requests, now>>
  /\ UNCHANGED ghostVars

\* React renders the queued updates; the effect of this render has not run yet
Render ==
  /\ ~Rendered
  /\ history' = pending.history
  /\ transparency' = pending.transparency
  /\ analysis' = pending.analysis
  /\ isAnalyzing' = pending.isAnalyzing
  /\ UNCHANGED <<species, pending, lastUpdateTime, worldState, canvas, requests, now>>
  /\ UNCHANGED rafVars
  /\ UNCHANGED ghostVars

\* a dependency of the effect has changed since it last ran: the scheduled callback
\* is not the animate of the last render
EffectDue == \E cb \in rafQueue : cb.species # species \/ cb.history # history

\* React runs the effect of the last render, after the browser has painted it
RunEffect ==
  /\ EffectDue
  /\ useEffect(species, history)
  /\ UNCHANGED <<species, history, transparency, analysis, isAnalyzing, pending,
                 lastUpdateTime, worldState, canvas, requests, now>>
  /\ UNCHANGED ghostVars

\* ------------------------------------------------------- species edits
\* a handler's setSpecies(next), rendered synchronously with its effect
setSpecies(next) ==
  /\ species' = next
  /\ IF next # species THEN useEffect(next, history) ELSE UNCHANGED rafVars
  /\ edits' = edits + 1
  /\ UNCHANGED <<history, transparency, isAnalyzing, lastUpdateTime, worldState, canvas,
                 requests, now, accepted, sampledAt, frames, retargets, clicks>>

\* setAnalysis(null) of the two preset handlers
clearAnalysis ==
  /\ analysis' = NoAnalysis
  /\ pending' = [pending EXCEPT !.analysis = NoAnalysis]
  /\ selectedAt' = Len(requests)

\* PRESET_KEYS.indexOf(name)
IndexOf(name) ==
  IF \E i \in 1 .. Len(PRESET_KEYS) : PRESET_KEYS[i] = name
  THEN (CHOOSE i \in 1 .. Len(PRESET_KEYS) : PRESET_KEYS[i] = name) - 1
  ELSE -1

cycleSpecies ==
  LET currentIndex == IndexOf(species.name)
      nextIndex == (currentIndex + 1) % Len(PRESET_KEYS)
  IN /\ setSpecies(SPECIES_PRESETS[PRESET_KEYS[nextIndex + 1]])
     /\ clearAnalysis

\* the onClick of a preset button
SelectPreset(key) ==
  /\ setSpecies(SPECIES_PRESETS[key])
  /\ clearAnalysis

\* the onChange of the three sliders; a slider fires it when its value changes
SetFlickerRate(v) ==
  /\ v # species.flickerRate
  /\ setSpecies([species EXCEPT !.flickerRate = v])
  /\ UNCHANGED <<analysis, pending, selectedAt>>

SetIntegrationWindow(v) ==
  /\ v # species.integrationWindow
  /\ setSpecies([species EXCEPT !.integrationWindow = v])
  /\ UNCHANGED <<analysis, pending, selectedAt>>

SetAttentionFocus(v) ==
  /\ v # species.attentionFocus
  /\ setSpecies([species EXCEPT !.attentionFocus = v])
  /\ UNCHANGED <<analysis, pending, selectedAt>>

\* ------------------------------------------------------ insight request
\* transparency.toFixed(1): the index rounded to tenths of a percent
ToFixed1(t) == (t * 10 + TScale \div 200) \div (TScale \div 100)

\* mutant: the prompt reads the queued index, not the one of the click's render
BuildPromptQueued(sp, tr) ==
  [name |-> sp.name, flickerRate |-> sp.flickerRate,
   integrationWindow |-> sp.integrationWindow,
   attentionFocus |-> sp.attentionFocus, transparency |-> ToFixed1(pending.transparency)]

\* the five values the prompt template embeds
BuildPrompt(sp, tr) ==
  [name |-> sp.name, flickerRate |-> sp.flickerRate,
   integrationWindow |-> sp.integrationWindow,
   attentionFocus |-> sp.attentionFocus, transparency |-> ToFixed1(tr)]

\* mutant: the button is never disabled
ButtonNeverDisabled(flag) == FALSE

\* disabled={isAnalyzing} on the insight button
ButtonDisabled(flag) == flag

\* what generateContent can settle with: a text (possibly empty), or a rejection
Responses ==
  {[ok |-> TRUE, text |-> t] : t \in {"", "insight"}} \cup {[ok |-> FALSE, text |-> ""]}

\* lines 160-163: the text put on display for a settled request
Displayed(response) ==
  IF response.ok
  THEN (IF response.text # "" THEN response.text ELSE Placeholder)
  ELSE Fallback

\* mutant: no finally block, the flag is cleared on the success path alone
FlagAfterNoFinally(response) == ~response.ok

\* lines 164-166: the pending flag after a settled request
FlagAfter(response) == FALSE

\* lines 131-158: the click handler up to its await, rendered synchronously
performDeepAnalysis ==
  /\ isAnalyzing' = TRUE
  /\ pending' = [pending EXCEPT !.isAnalyzing = TRUE]
  /\ requests' = Append(requests, [prompt |-> BuildPrompt(species, transparency),
                                   status |-> "pending", text |-> ""])
  /\ UNCHANGED <<species, history, transparency, analysis, lastUpdateTime, worldState,
                 canvas, now>>
  /\ UNCHANGED rafVars

\* a click on the insight button; the browser delivers none to a disabled button
ClickAnalyze ==
  /\ clicks' = clicks + 1
  /\ UNCHANGED <<accepted, sampledAt, frames, retargets, edits, selectedAt>>
  /\ IF ButtonDisabled(isAnalyzing)
     THEN UNCHANGED <<species, history, transparency, analysis, isAnalyzing, pending,
                      lastUpdateTime, worldState, requestRef, rafQueue, nextHandle,
                      canvas, requests, now>>
     ELSE performDeepAnalysis

\* lines 160-166: request i settles with `response` and the handler resumes
Settle(i, response) ==
  /\ requests[i].status = "pending"
  /\ requests' = [requests EXCEPT ![i].status = IF response.ok THEN "resolved" ELSE "rejected",
                                  ![i].text = response.text]
  /\ pending' = [pending EXCEPT !.analysis = Displayed(response),
                                !.isAnalyzing = FlagAfter(response)]
  /\ UNCHANGED <<species, history, transparency, analysis, isAnalyzing, lastUpdateTime,
                 worldState, canvas, now>>
  /\ UNCHANGED rafVars
  /\ UNCHANGED ghostVars

\* ------------------------------------------------------- specifications
\* the next animation frame; it runs after React has rendered the last one's updates
Frame ==
  /\ frames < budget.frames
  /\ Len(accepted) < budget.samples
  /\ Rendered
  /\ \E cb \in rafQueue, d \in (IF frames = 0 THEN budget.first ELSE budget.deltas),
        roll \in Rolls(IF retargets < budget.retargets THEN TargetPoints ELSE {}) :
       animate(cb, now + d, roll)

\* the next animation frame, whenever the display refreshes: before React has
\* rendered the last frame's updates, or between a render and its effect
EarlyFrame ==
  /\ frames < budget.frames
  /\ \E cb \in rafQueue, d \in budget.deltas,
        roll \in Rolls(IF retargets < budget.retargets THEN TargetPoints ELSE {}) :
       animate(cb, now + d, roll)

PresetClick == edits < budget.edits /\ \E key \in DOMAIN SPECIES_PRESETS : SelectPreset(key)

CycleClick == edits < budget.edits /\ cycleSpecies

RateSlider == edits < budget.edits /\ \E v \in RateChoices : SetFlickerRate(v)

WindowSlider == edits < budget.edits /\ \E v \in WindowChoices : SetIntegrationWindow(v)

BiasSlider == edits < budget.edits /\ \E v \in BiasChoices : SetAttentionFocus(v)

InsightClick == clicks < budget.clicks /\ ClickAnalyze

InsightSettles == \E i \in 1 .. Len(requests), response \in Responses : Settle(i, response)

\* Spec: the sampling loop under frames of varied length, a moving target, preset
\* selections and rate edits
InitSpec ==
  /\ Init
  /\ budget = [frames |-> MaxFrames, samples |-> MaxFrames, retargets |-> MaxRetargets,
               edits |-> MaxEdits, clicks |-> 0, first |-> FrameDeltas,
               deltas |-> FrameDeltas]

Next ==
  \/ Frame /\ UNCHANGED budget
  \/ Commit /\ UNCHANGED budget
  \/ PresetClick /\ UNCHANGED budget
  \/ RateSlider /\ UNCHANGED budget

Spec == InitSpec /\ [][Next]_allVars

\* SpecInsight: the insight request among frames, preset selections and slider edits
InitInsight ==
  /\ Init
  /\ budget = [frames |-> MaxInsightFrames, samples |-> MaxInsightFrames,
               retargets |-> 0, edits |-> MaxInsightEdits, clicks |-> MaxClicks,
               first |-> {SteadyDelta}, deltas |-> {SteadyDelta}]

NextInsight ==
  \/ Frame /\ UNCHANGED budget
  \/ Commit /\ UNCHANGED budget
  \/ PresetClick /\ UNCHANGED budget
  \/ CycleClick /\ UNCHANGED budget
  \/ WindowSlider /\ UNCHANGED budget
  \/ BiasSlider /\ UNCHANGED budget
  \/ InsightClick /\ UNCHANGED budget
  \/ InsightSettles /\ UNCHANGED budget

SpecInsight == InitInsight /\ [][NextInsight]_allVars

\* SpecLong: a long session at a steady frame time, until the history has overflowed
InitLong ==
  /\ Init
  /\ budget = [frames |-> 3 * MaxLongSamples, samples |-> MaxLongSamples,
               retargets |-> 0, edits |-> MaxLongEdits, clicks |-> 0,
               first |-> FrameDeltas, deltas |-> {SteadyDelta}]

NextLong ==
  \/ Frame /\ UNCHANGED budget
  \/ Commit /\ UNCHANGED budget
  \/ PresetClick /\ UNCHANGED budget
  \/ WindowSlider /\ UNCHANGED budget

SpecLong == InitLong /\ [][NextLong]_allVars

\* SpecRaf: the frame loop under every order of frames, renders, effects and
\* species changes
InitRaf ==
  /\ Init
  /\ budget = [frames |-> MaxRafFrames, samples |-> MaxRafFrames,
               retargets |-> MaxRetargets,
               edits |-> MaxRafEdits, clicks |-> 0, first |-> FrameDeltas,
               deltas |-> FrameDeltas]

NextRaf ==
  \/ EarlyFrame /\ UNCHANGED budget
  \/ Render /\ UNCHANGED budget
  \/ RunEffect /\ UNCHANGED budget
  \/ PresetClick /\ UNCHANGED budget
  \/ RateSlider /\ UNCHANGED budget

SpecRaf == InitRaf /\ [][NextRaf]_allVars

\* ---------------------------------------------------------------- claims
Last(s) == s[Len(s)]

\* the most recent samples of the acceptance log `log`, at most MAX_HISTORY, in order
RecentOf(log) ==
  LET n == Len(log)
      k == IF n < MAX_HISTORY THEN n ELSE MAX_HISTORY
  IN [i \in 1 .. k |-> log[n - k + i]]

InFlight == {i \in 1 .. Len(requests) : requests[i].status = "pending"}

\* C1: the history holds at most 50 samples, and they are exactly the most recently
\* accepted samples in acceptance order (the oldest is the one evicted); the rendered
\* history is the queued one, or the one before the sample a frame has just queued.
C1_HistoryIsRecentAccepted ==
  /\ Len(pending.history) <= MAX_HISTORY
  /\ Len(history) <= MAX_HISTORY
  /\ pending.history = RecentOf(accepted)
  /\ \/ history = pending.history
     \/ accepted # <<>> /\ history = RecentOf(SubSeq(accepted, 1, Len(accepted) - 1))

\* C1 witness: the buffer is full, the oldest samples have been evicted, a frame was
\* rejected and the profile was edited on the way
C1_Witness ==
  /\ Len(accepted) > MAX_HISTORY
  /\ Len(history) = MAX_HISTORY
  /\ history = pending.history
  /\ history[1].t = accepted[Len(accepted) - MAX_HISTORY + 1].t
  /\ frames > Len(accepted)
  /\ edits > 0

\* C2: at most one generateContent request is in flight, and a click on the trigger
\* while one is in flight issues no request and changes no state of the component.
C2_AtMostOneInFlight ==
  /\ [](Cardinality(InFlight) <= 1)
  /\ [][(clicks' # clicks /\ InFlight # {})
          => /\ requests' = requests
             /\ UNCHANGED <<species, history, transparency, analysis, isAnalyzing, pending>>
       ]_allVars

\* C2 witness: the trigger was clicked twice and the one request issued is in flight
C2_Witness ==
  /\ clicks = 2
  /\ Len(requests) = 1
  /\ requests[1].status = "pending"

\* C3: a sample is accepted strictly more than 1000/R ms after the one before it, R the
\* rate in force at that frame (so, while the rate is never edited, every two
\* consecutive samples of the history are more than 1000/24 ms apart); the sample
\* carries the time of the frame that accepted it, which becomes the last-sample time.
C3_SampleSpacing ==
  /\ [](/\ Len(accepted) >= 2
             => (Last(accepted).t - accepted[Len(accepted) - 1].t) * sampledAt > 1000
        /\ edits = 0
             => \A i \in 2 .. Len(pending.history) :
                  (pending.history[i].t - pending.history[i - 1].t)
                     * SPECIES_PRESETS["Human"].flickerRate > 1000
        /\ pending.history # <<>> => Last(pending.history).t = lastUpdateTime)
  /\ [][Len(accepted') > Len(accepted)
          => /\ (now' - lastUpdateTime) * species.flickerRate > 1000
             /\ sampledAt' = species.flickerRate
             /\ Last(pending'.history).t = now'
             /\ lastUpdateTime' = now'
       ]_allVars

\* C3 witness: two samples accepted 50 ms apart at 24 Hz, with a rejected frame between
C3_Witness ==
  /\ Len(accepted) >= 2
  /\ sampledAt = 24
  /\ Last(accepted).t - accepted[Len(accepted) - 1].t = 50
  /\ frames > Len(accepted)

\* C4: the transparency index, rendered or queued, is within [0, 100].
C4_TransparencyInRange ==
  /\ transparency \in 0 .. TScale
  /\ pending.transparency \in 0 .. TScale

\* C4 witness: an update has run on two samples so far apart, at so low a rate,
\* that 100 - d / (rate / 5) is negative
C4_Witness ==
  /\ Len(accepted) >= 3
  /\ Distance(accepted[Len(accepted) - 1], accepted[Len(accepted) - 2]) * 5
       > sampledAt * 100 * DScale

\* C5 (as claimed): under the Human preset, once exactly two samples are accepted, at
\* (150,100) then (160,100), the index is lerp(0, clamp(100 - 10/(24/5), 0, 100), 0.1),
\* 9.79 percent.
C5_IndexAfterTwoSamples ==
  ( /\ species = SPECIES_PRESETS["Human"]
    /\ Rendered
    /\ Len(accepted) = 2
    /\ Len(history) = 2
    /\ history[1].x = 150 /\ history[1].y = 100
    /\ history[2].x = 160 /\ history[2].y = 100 )
  => transparency = 979

\* C6: a frame that runs while the history holds 0 or 1 samples leaves the index
\* unchanged, whether or not it accepts a sample.
C6_IndexKeptBelowTwoSamples ==
  [][(frames' = frames + 1 /\ Len(history) <= 1)
       => /\ pending'.transparency = pending.transparency
          /\ transparency' = transparency
    ]_allVars

\* C6 witness: a frame has accepted the second sample while the history held one
C6_Witness ==
  /\ Len(history) = 1
  /\ Len(pending.history) = 2
  /\ pending.transparency = 0

\* some request settles in this step
Settles == \E i \in 1 .. Len(requests) :
             requests[i].status = "pending" /\ requests'[i].status # "pending"

\* C7: a request that settles clears the pending flag and puts on display the returned
\* text (the placeholder when it is empty) or, on failure, the fallback; it issues no
\* further request and leaves the scheduled frame in place.  Requests are issued by
\* clicks alone, and once every request has settled and rendered the trigger is enabled.
C7_RequestAlwaysConcludes ==
  /\ [](/\ (InFlight = {} /\ Rendered) => ~isAnalyzing
        /\ rafQueue # {})
  /\ [][Settles =>
          \E i \in InFlight :
            /\ requests'[i].status \in {"resolved", "rejected"}
            /\ pending'.isAnalyzing = FALSE
            /\ pending'.analysis =
                 IF requests'[i].status = "rejected" THEN Fallback
                 ELSE IF requests'[i].text = "" THEN Placeholder
                 ELSE requests'[i].text
            /\ Len(requests') = Len(requests)
            /\ rafQueue' = rafQueue
       ]_allVars
  /\ [][Len(requests') # Len(requests)
          => Len(requests') = Len(requests) + 1 /\ clicks' = clicks + 1]_allVars

\* C7 witness: a request was rejected, the fallback is on display, the trigger is
\* enabled again and a frame has run since
C7_Witness ==
  /\ Len(requests) = 1
  /\ requests[1].status = "rejected"
  /\ Rendered
  /\ analysis = Fallback
  /\ ~isAnalyzing
  /\ frames > 0
  /\ now > 0

\* the cells {(row, col) : 0 <= col <= row < count}
Triangle(count) ==
  {c \in (0 .. MAX_HISTORY - 1) \X (0 .. MAX_HISTORY - 1) : c[2] <= c[1] /\ c[1] < count}

\* C8 (as claimed): a render fills exactly the cells (row, col) with
\* 0 <= col <= row < count, count the history length.
C8_MatrixIsTriangleOfLength ==
  [][frames' = frames + 1 => canvas'.matrix = Triangle(Len(history))]_allVars

\* C8 (amended): a render fills exactly the cells (row, col) with 0 <= col <= row < count,
\* count the history length or 1 when the history is empty; no cell with col > row.
C8_MatrixIsTriangle ==
  [][frames' = frames + 1
       => canvas'.matrix = Triangle(IF history = <<>> THEN 1 ELSE Len(history))]_allVars

\* C8 witness: a render of the full history, 50 rows of the triangle
C8_Witness ==
  /\ frames > 0
  /\ Len(history) = MAX_HISTORY
  /\ Cardinality(canvas.matrix) = (MAX_HISTORY * (MAX_HISTORY + 1)) \div 2

\* C9: a render draws min(integrationWindow, history length) samples in the model view,
\* the most recent ones, in order; a preset selection or slider edit leaves the history
\* as it is.
C9_ModelViewIsRecentWindow ==
  /\ [][frames' = frames + 1
          => LET n == Len(history)
                 k == IF species.integrationWindow < n THEN species.integrationWindow ELSE n
             IN canvas'.model = [i \in 1 .. k |-> history[n - k + i]]
       ]_allVars
  /\ [][edits' # edits => history' = history /\ pending'.history = pending.history]_allVars

\* C9 witness: after an edit, a render has drawn a window shorter than the history,
\* ending at its newest sample
C9_Witness ==
  /\ edits > 0
  /\ Rendered
  /\ history = pending.history
  /\ Len(canvas.model) = species.integrationWindow
  /\ Len(history) > species.integrationWindow + 1
  /\ Last(canvas.model) \in {history[Len(history)], history[Len(history) - 1]}

\* C10: issuing or settling a request leaves the history, the world, the last-sample
\* time, the index and the profile as they are; the prompt holds the profile and index
\* of the render the click happened in, and never changes afterwards.
C10_RequestLeavesSimulationAlone ==
  [][/\ requests' # requests
          => /\ UNCHANGED <<history, worldState, lastUpdateTime, transparency, species>>
             /\ pending'.history = pending.history
             /\ pending'.transparency = pending.transparency
     /\ Len(requests') > Len(requests)
          => Last(requests').prompt =
               [name |-> species.name, flickerRate |-> species.flickerRate,
                integrationWindow |-> species.integrationWindow,
                attentionFocus |-> species.attentionFocus,
                transparency |-> (transparency + 5) \div 10]
     /\ \A i \in 1 .. Len(requests) : requests'[i].prompt = requests[i].prompt
    ]_allVars

\* C10 witness: while a request is in flight, frames have moved the index and an edit
\* has changed the profile away from what the prompt holds
C10_Witness ==
  /\ Len(requests) = 1
  /\ requests[1].status = "pending"
  /\ requests[1].prompt.transparency > 0
  /\ requests[1].prompt.transparency # (transparency + 5) \div 10
  /\ requests[1].prompt.name # species.name

\* the text request i put on display when it settled
ShownBy(i) ==
  Displayed([ok |-> requests[i].status = "resolved", text |-> requests[i].text])

\* selecting or cycling a preset leaves the analysis empty, rendered and queued
SelectionClearsAnalysis ==
  [][selectedAt' # selectedAt \/ species'.name # species.name
       => analysis' = NoAnalysis /\ pending'.analysis = NoAnalysis]_allVars

\* C11: an analysis on display after a preset selection is the settled response of a
\* request triggered after that selection: until such a request settles the analysis
\* stays empty, and the response to a request triggered before the selection is never
\* displayed under the newly selected preset.
C11_NoStaleAnalysis ==
  analysis # NoAnalysis =>
    \E i \in selectedAt + 1 .. Len(requests) :
      /\ requests[i].status # "pending"
      /\ analysis = ShownBy(i)

\* C12: at most one animation-frame callback is scheduled, the one requestRef names;
\* a new callback is requested only once the previous one has run or been cancelled;
\* so every display frame finds exactly one callback, advances the world exactly
\* once and accepts at most one sample, and nothing else moves the world.
C12_OneScheduledCallback ==
  /\ [](/\ Cardinality(rafQueue) <= 1
        /\ \A cb \in rafQueue : cb.id = requestRef)
  /\ [][nextHandle' # nextHandle
          => /\ nextHandle' = nextHandle + 1
             /\ \A cb \in rafQueue' : cb.id = nextHandle /\ cb \notin rafQueue]_allVars
  /\ [][IF frames' # frames
        THEN /\ frames' = frames + 1
             /\ Cardinality(rafQueue) = 1
             /\ \E roll \in Rolls(TargetPoints) :
                  worldState' = updateWorld(worldState, roll)
             /\ Len(accepted') <= Len(accepted) + 1
             /\ Len(pending'.history) <= Len(pending.history) + 1
        ELSE worldState' = worldState /\ accepted' = accepted]_allVars

\* C12 witness: frames have run before the render of the previous frame's samples,
\* the effect has re-subscribed at least twice, the point has moved, and one callback
\* is scheduled
C12_Witness ==
  /\ frames >= 3
  /\ nextHandle >= frames + 4
  /\ Len(pending.history) >= Len(history) + 2
  /\ worldState.x # 150
  /\ edits >= 1
  /\ Cardinality(rafQueue) = 1

=============================================================================
